---- MODULE Spec2Model ----
(***************************************************************************)
(* Model of the decision layer of the receipt OCR pipeline:                *)
(*   - the auto mode selector (app.py, src/run_sroie_eval.py),             *)
(*   - the field extractor (src/app/extract_fields.py).                    *)
(* Texts are TLA+ strings over the ASCII characters; a character is a      *)
(* string of length one.  Scores and margins are floats that are whole    *)
(* multiples of 1/64, held as that whole number: sums and comparisons of  *)
(* such floats are exact.                                                  *)
(* Python values that may reach the extractor are tagged records           *)
(* (PyNone, PyStr, PyInt, PyList); an uncaught exception is PyRaise.       *)
(***************************************************************************)
EXTENDS Integers, Sequences, FiniteSets, TLC

VARIABLES
    score,      \* selector: mode -> blended score of that mode's outcome (in 1/64)
    fails,      \* selector: mode -> TRUE when transform/recognition raises for that mode
    margin,     \* selector: the margin argument (in 1/64)
    pc,         \* selector: position inside choose_best_auto
    idx,        \* selector: index into candidate_modes_for_auto() of the loop
    best,       \* selector: the local variable best (an outcome, or NoOutcome)
    chosen,     \* selector: modes returned by the runs completed so far on this image
    arg,        \* extractor: the argument value passed to the extraction function
    fn,         \* extractor: the function that was called ("" before the call)
    xpc,        \* extractor: "call" before the function ran, "ret" after
    res,        \* extractor: the value returned (or PyRaise)
    singleton,  \* lexicon: the module global _symspell_singleton
    lexicon,    \* lexicon: state of the dictionary file on disk
    loads,      \* lexicon: number of dictionary loads performed so far
    tpc,        \* lexicon: thread -> position inside its call of _load_symspell
    sym,        \* lexicon: thread -> the local SymSpell object of _load_symspell
    got,        \* lexicon: thread -> the dictionary handle the call returned
    results,    \* forks: mode -> the recognition results of the image in that mode
    picked      \* forks: fork -> what its choose_best_auto computed and returned

vars == <<score, fails, margin, pc, idx, best, chosen, arg, fn, xpc, res,
          singleton, lexicon, loads, tpc, sym, got, results, picked>>
selVars == <<score, fails, margin, pc, idx, best, chosen>>
extVars == <<arg, fn, xpc, res>>
lexVars == <<singleton, lexicon, loads, tpc, sym, got>>
forkVars == <<results, picked>>

(***************************************************************************)
(* Bounds of the model.                                                    *)
(***************************************************************************)
MaxScore == 4
MaxMargin == 2
MaxRuns == 2
MaxTotalsLines == 3     \* lines of a receipt text given to extract_totals
MaxDateTokens == 3      \* tokens of a text given to extract_date
MaxMerchantLines == 2   \* vocabulary lines of a text given to guess_merchant
MaxFill == 13           \* filler lines put in front of a merchant text
MaxBlank == 3           \* length of a whitespace-only text
MaxCleanTokens == 5     \* tokens of a text given to clean_ocr_text
MaxHintLines == 3       \* lines of a receipt of subtotal and total lines
MaxCorrectTokens == 2   \* tokens of a text given to correct_with_lexicon
MaxForkTokens == 2      \* recognised tokens of an image in one mode
MaxThreads == 3         \* threads that issue a first correction request

(***************************************************************************)
(* Python values.                                                          *)
(***************************************************************************)
PyNone == [kind |-> "none"]
PyStr(s) == [kind |-> "str", s |-> s]
PyInt(n) == [kind |-> "int", n |-> n]
PyList(l) == [kind |-> "list", items |-> l]
PyRaise == [kind |-> "raise"]

(***************************************************************************)
(* Auto mode selector.                                                     *)
(***************************************************************************)
\* candidate_modes_for_auto()
candidate_modes_for_auto == <<"none", "clahe", "denoise">>

Modes == {candidate_modes_for_auto[i] : i \in 1..Len(candidate_modes_for_auto)}

NoOutcome == [mode |-> "unset", score |-> 0]

\* run_ocr_on(img, mode): the outcome record; only mode and score matter to
\* the selector. It is called only when the collaborators do not raise.
run_ocr_on(mode) == [mode |-> mode, score |-> score[mode]]

\* The replacement test of the candidate loop. (Mut_Displaces: >= for >;
\* Mut_DisplacesMarginOnCandidate: the margin added to the candidate's score.)
Mut_Displaces(out, cur, mg) == out.score >= cur.score + mg
Mut_DisplacesMarginOnCandidate(out, cur, mg) == out.score + mg > cur.score
Displaces(out, cur, mg) == out.score > cur.score + mg

SelInitCommon ==
    /\ pc = "start"
    /\ idx = 1
    /\ best = NoOutcome
    /\ chosen = <<>>

ExtIdle ==
    /\ arg = PyNone
    /\ fn = ""
    /\ xpc = "idle"
    /\ res = PyNone

Threads == 1..MaxThreads

LexIdle ==
    /\ singleton = "None"
    /\ lexicon = "ok"
    /\ loads = 0
    /\ tpc = [t \in Threads |-> "idle"]
    /\ sym = [t \in Threads |-> "None"]
    /\ got = [t \in Threads |-> "None"]

Forks == {"app", "eval"}
NoPick == [kind |-> "none"]

ForkIdle ==
    /\ results = [m \in Modes |-> <<>>]
    /\ picked = [f \in Forks |-> NoPick]

SelInit ==
    /\ score \in [Modes -> 0..MaxScore]
    /\ fails \in [Modes -> BOOLEAN]
    /\ margin \in {-1} \cup (0..MaxMargin)
    /\ SelInitCommon
    /\ ExtIdle
    /\ LexIdle
    /\ ForkIdle

\* baseline = run_ocr_on(img, "none"); best = baseline
EvalBaseline ==
    /\ pc = "start"
    /\ IF fails["none"]
          THEN /\ pc' = "raised"
               /\ UNCHANGED <<best, idx>>
          ELSE /\ best' = run_ocr_on("none")
               /\ idx' = 1
               /\ pc' = "loop"
    /\ UNCHANGED <<score, fails, margin, chosen, extVars, lexVars, forkVars>>

\* One iteration of `for m in candidate_modes_for_auto()`.
LoopStep ==
    /\ pc = "loop"
    /\ idx <= Len(candidate_modes_for_auto)
    /\ LET m == candidate_modes_for_auto[idx] IN
         IF m = "none"
            THEN /\ idx' = idx + 1
                 /\ UNCHANGED <<best, pc>>
            ELSE IF fails[m]
                    THEN /\ pc' = "raised"
                         /\ UNCHANGED <<best, idx>>
                    ELSE /\ best' = IF Displaces(run_ocr_on(m), best, margin)
                                       THEN run_ocr_on(m) ELSE best
                         /\ idx' = idx + 1
                         /\ pc' = pc
    /\ UNCHANGED <<score, fails, margin, chosen, extVars, lexVars, forkVars>>

\* return best
Return ==
    /\ pc = "loop"
    /\ idx > Len(candidate_modes_for_auto)
    /\ pc' = "done"
    /\ chosen' = Append(chosen, best.mode)
    /\ UNCHANGED <<score, fails, margin, idx, best, extVars, lexVars, forkVars>>

\* The caller runs the selection again on the same image with the same margin.
Rerun ==
    /\ pc = "done"
    /\ Len(chosen) < MaxRuns
    /\ pc' = "start"
    /\ idx' = 1
    /\ best' = NoOutcome
    /\ UNCHANGED <<score, fails, margin, chosen, extVars, lexVars, forkVars>>

SelNext == EvalBaseline \/ LoopStep \/ Return \/ Rerun

(***************************************************************************)
(* Claims about the selector.                                              *)
(***************************************************************************)
OtherModes == Modes \ {"none"}

\* C1: the baseline outcome is the initial best; inside the loop best changes
\* only to the candidate just evaluated and only when that candidate's score
\* is strictly greater than the current best's score plus margin; with
\* margin >= 0 a candidate that equals the current best, or exceeds it by at
\* most margin, leaves best unchanged; and a finished run in which no
\* candidate beats the baseline by more than margin returns the baseline.
C1_BaselineBiasedReplacement ==
    [][ /\ (pc = "start" /\ pc' = "loop") => best' = run_ocr_on("none")
        /\ (pc = "loop" /\ pc' = "loop" /\ idx' # idx) =>
              LET m == candidate_modes_for_auto[idx] IN
                /\ best' # best =>
                      /\ m # "none"
                      /\ best' = run_ocr_on(m)
                      /\ score[m] > best.score + margin
                /\ (margin >= 0 /\ score[m] >= best.score
                      /\ score[m] - best.score <= margin) => best' = best
        /\ (pc' = "done" /\ margin >= 0
              /\ \A m \in OtherModes : score[m] <= score["none"] + margin)
              => best'.mode = "none"
      ]_vars

\* C1 witness: a finished run with a positive margin in which one candidate
\* exceeds the baseline by exactly margin, the other ties it, and the
\* baseline was returned.
C1_Witness ==
    /\ pc = "done"
    /\ margin > 0
    /\ score["clahe"] = score["none"] + margin
    /\ score["denoise"] = score["none"]
    /\ best.mode = "none"

\* C2 (as claimed): when the baseline evaluation succeeds and every other
\* candidate evaluation raises, the selection ends by returning the baseline
\* outcome, not in an error.
C2_BaselineReturnedWhenOthersFail ==
    ( /\ pc \in {"done", "raised"}
      /\ ~fails["none"]
      /\ \A m \in OtherModes : fails[m] )
    => (pc = "done" /\ best.mode = "none")

\* C3 (every run on a fixed image and margin returns the same mode, whatever
\* the order in which the evaluations of the other candidates are carried
\* out or complete) has no formula here.  A run reads only the per-mode
\* scores and the margin and changes neither (Rerun starts from the state
\* EvalBaseline starts from), so that two runs agree is two evaluations of
\* the same function agreeing, which holds of any model.  And the code
\* evaluates the candidates one after the other, in the order of
\* candidate_modes_for_auto(), comparing each as soon as it is evaluated
\* (LoopStep): no behaviour carries out or completes the evaluations in
\* another order, so no behaviour can confirm or refute the second half.

(***************************************************************************)
(* Characters and Python string operations used by the field extractor.    *)
(***************************************************************************)
Ch(s, i) == IF i >= 1 /\ i <= Len(s) THEN SubSeq(s, i, i) ELSE ""

DigitChars == {"0", "1", "2", "3", "4", "5", "6", "7", "8", "9"}
LowerSeq == "abcdefghijklmnopqrstuvwxyz"
UpperSeq == "ABCDEFGHIJKLMNOPQRSTUVWXYZ"
LowerChars == {Ch(LowerSeq, i) : i \in 1..Len(LowerSeq)}
UpperChars == {Ch(UpperSeq, i) : i \in 1..Len(UpperSeq)}
AlphaChars == LowerChars \cup UpperChars
\* \w of the re module
WordChars == AlphaChars \cup DigitChars \cup {"_"}
\* The ASCII control characters that have no escape in a string: vertical
\* tab (0x0B) and the file, group, record and unit separators (0x1C-0x1F).
VT == ""
FS == ""
GS == ""
RS == ""
US == ""
\* line boundaries of str.splitlines
LineBreakChars == {"\n", "\r", "\f", VT, FS, GS, RS}
\* white space: the characters removed by str.strip() and matched by \s
SpaceChars == {" ", "\t", US} \cup LineBreakChars

UpperMap == [c \in LowerChars |->
               Ch(UpperSeq, CHOOSE i \in 1..Len(LowerSeq) : Ch(LowerSeq, i) = c)]

\* str.upper(), character by character (the text is halved to keep the
\* evaluation shallow).
UpperCh(c) == IF c \in LowerChars THEN UpperMap[c] ELSE c
RECURSIVE Upper(_)
Upper(s) ==
    IF Len(s) = 0 THEN ""
    ELSE IF Len(s) = 1 THEN UpperCh(s)
    ELSE Upper(SubSeq(s, 1, Len(s) \div 2)) \o Upper(SubSeq(s, Len(s) \div 2 + 1, Len(s)))

\* str.replace(",", ".")
RECURSIVE ReplaceComma(_)
ReplaceComma(s) ==
    IF Len(s) = 0 THEN ""
    ELSE IF Len(s) = 1 THEN (IF s = "," THEN "." ELSE s)
    ELSE ReplaceComma(SubSeq(s, 1, Len(s) \div 2))
         \o ReplaceComma(SubSeq(s, Len(s) \div 2 + 1, Len(s)))

\* str.strip(): from the first to the last character that is not whitespace
Strip(s) ==
    LET keep == {i \in 1..Len(s) : Ch(s, i) \notin SpaceChars} IN
    IF keep = {} THEN ""
    ELSE SubSeq(s, CHOOSE i \in keep : \A j \in keep : i <= j,
                   CHOOSE i \in keep : \A j \in keep : j <= i)

\* str.splitlines(): "\r\n" is one boundary; no empty last line.
RECURSIVE SplitFrom(_, _)
SplitFrom(s, start) ==
    IF start > Len(s) THEN <<>>
    ELSE LET bs == {i \in start..Len(s) : Ch(s, i) \in LineBreakChars} IN
         IF bs = {} THEN <<SubSeq(s, start, Len(s))>>
         ELSE LET b == CHOOSE i \in bs : \A j \in bs : i <= j
                  nxt == IF Ch(s, b) = "\r" /\ Ch(s, b + 1) = "\n" THEN b + 2 ELSE b + 1
              IN <<SubSeq(s, start, b - 1)>> \o SplitFrom(s, nxt)
SplitLines(s) == SplitFrom(s, 1)

\* [ln.strip() for ln in s.splitlines() if ln.strip()]
RECURSIVE StripNonEmpty(_)
StripNonEmpty(ls) ==
    IF ls = <<>> THEN <<>>
    ELSE (IF Strip(Head(ls)) # "" THEN <<Strip(Head(ls))>> ELSE <<>>)
         \o StripNonEmpty(Tail(ls))
NonEmptyLines(s) == StripNonEmpty(SplitLines(s))

\* needle in hay
Contains(hay, needle) ==
    \E i \in 1..(Len(hay) - Len(needle) + 1) :
        SubSeq(hay, i, i + Len(needle) - 1) = needle

\* sum(ch.isalpha() for ch in s)
AlphaCount(s) == Cardinality({i \in 1..Len(s) : Ch(s, i) \in AlphaChars})

\* regex \b at the position before character i (1 <= i <= Len(s) + 1)
IsWordAt(s, i) == i >= 1 /\ i <= Len(s) /\ Ch(s, i) \in WordChars
WordBoundary(s, i) == IsWordAt(s, i - 1) # IsWordAt(s, i)

\* \d{k} at position i
DigitsAt(s, i, k) == \A j \in i..(i + k - 1) : j <= Len(s) /\ Ch(s, j) \in DigitChars

SetMax(S) == CHOOSE x \in S : \A y \in S : y <= x

RECURSIVE ConcatAll(_)
ConcatAll(ss) == IF ss = <<>> THEN <<>> ELSE Head(ss) \o ConcatAll(Tail(ss))

(***************************************************************************)
(* Field extractor: helpers and patterns (src/app/extract_fields.py).      *)
(***************************************************************************)
\* _safe_text(text): text if it is a str, else "". (Mut__safe_text: the
\* isinstance test dropped.)
Mut__safe_text(x) == x
_safe_text(x) == IF x.kind = "str" THEN x ELSE PyStr("")

\* _dedup_preserve_order(items). (Mut_Dedup: the membership test dropped.)
Mut_Dedup(items) == items
RECURSIVE DedupInto(_, _)
DedupInto(out, items) ==
    IF items = <<>> THEN out
    ELSE DedupInto(IF \E i \in 1..Len(out) : out[i] = Head(items)
                      THEN out ELSE Append(out, Head(items)),
                   Tail(items))
_dedup_preserve_order(items) == DedupInto(<<>>, items)

DateSepChars == {"/", "-"}
MoneySepChars == {".", ","}
TimeSepChars == {":", "."}
MinuteTens == {"0", "1", "2", "3", "4", "5"}

\* DATE_PATTERNS[p] tried at position i: the length of the match, 0 if none.
\*   1: \b(\d{2}[/-]\d{2}[/-]\d{2,4})\b      2: \b(\d{4}[/-]\d{2}[/-]\d{2})\b
DateMatchLen(p, s, i) ==
    IF p = 1
       THEN LET ks == {k \in 2..4 :
                         /\ DigitsAt(s, i + 6, k)
                         /\ WordBoundary(s, i + 6 + k)}
            IN IF /\ WordBoundary(s, i)
                  /\ DigitsAt(s, i, 2)
                  /\ Ch(s, i + 2) \in DateSepChars
                  /\ DigitsAt(s, i + 3, 2)
                  /\ Ch(s, i + 5) \in DateSepChars
                  /\ ks # {}
                  THEN 6 + SetMax(ks) ELSE 0
       ELSE IF /\ WordBoundary(s, i)
               /\ DigitsAt(s, i, 4)
               /\ Ch(s, i + 4) \in DateSepChars
               /\ DigitsAt(s, i + 5, 2)
               /\ Ch(s, i + 7) \in DateSepChars
               /\ DigitsAt(s, i + 8, 2)
               /\ WordBoundary(s, i + 10)
               THEN 10 ELSE 0

\* re.search(DATE_PATTERNS[p], s): the match at the leftmost position
\* where the pattern matches; "" when there is no match.
DateSearch(p, s) ==
    LET at == {i \in 1..Len(s) : DateMatchLen(p, s, i) > 0} IN
    IF at = {} THEN ""
    ELSE LET i == CHOOSE i \in at : \A j \in at : i <= j
         IN SubSeq(s, i, i + DateMatchLen(p, s, i) - 1)

\* MONEY_RE = \b(\d{1,6}[.,]\d{2})\b tried at position i: length or 0.
MoneyMatchLen(s, i) ==
    LET ks == {k \in 1..6 :
                 /\ DigitsAt(s, i, k)
                 /\ Ch(s, i + k) \in MoneySepChars
                 /\ DigitsAt(s, i + k + 1, 2)
                 /\ WordBoundary(s, i + k + 3)}
    IN IF WordBoundary(s, i) /\ ks # {} THEN SetMax(ks) + 3 ELSE 0

\* MONEY_RE.finditer(s): non-overlapping matches, left to right, as records
\* [pos, val]; the search resumes where the previous match ended.
RECURSIVE MoneyFindFrom(_, _)
MoneyFindFrom(s, from) ==
    LET at == {i \in from..Len(s) : MoneyMatchLen(s, i) > 0} IN
    IF at = {} THEN <<>>
    ELSE LET i == CHOOSE i \in at : \A j \in at : i <= j
             n == MoneyMatchLen(s, i)
         IN <<[pos |-> i, val |-> SubSeq(s, i, i + n - 1)]>>
            \o MoneyFindFrom(s, i + n)
MoneyFindIter(s) == MoneyFindFrom(s, 1)

\* TIMEISH_RE.fullmatch(v), TIMEISH_RE = \b([01]?\d|2[0-3])[:.][0-5]\d\b
\* (Mut_TimeishFullmatch: the hour written as [01]\d only.)
Mut_TimeishFullmatch(v) ==
    /\ Len(v) = 5
    /\ Ch(v, 1) \in {"0", "1"} /\ Ch(v, 2) \in DigitChars
    /\ Ch(v, 3) \in TimeSepChars
    /\ Ch(v, 4) \in MinuteTens /\ Ch(v, 5) \in DigitChars
TimeishFullmatch(v) ==
    \E hl \in 1..2 :
        /\ Len(v) = hl + 3
        /\ WordBoundary(v, 1)
        /\ \/ hl = 1 /\ Ch(v, 1) \in DigitChars
           \/ hl = 2 /\ Ch(v, 1) \in {"0", "1"} /\ Ch(v, 2) \in DigitChars
           \/ hl = 2 /\ Ch(v, 1) = "2" /\ Ch(v, 2) \in {"0", "1", "2", "3"}
        /\ Ch(v, hl + 1) \in TimeSepChars
        /\ Ch(v, hl + 2) \in MinuteTens
        /\ Ch(v, hl + 3) \in DigitChars
        /\ WordBoundary(v, Len(v) + 1)

TOTAL_LINE_HINTS ==
    << "ROUNDED TOTAL", "TOTAL AMT PAYABLE", "AMT PAYABLE", "AMOUNT PAYABLE",
       "TOTAL PAYABLE", "TOTAL:", "TOTAL", "SUB TOTAL", "SUBTOTAL", "CASH",
       "CHANGE" >>

MERCHANT_BAD ==
    { "TOTAL", "SUBTOTAL", "SUB TOTAL", "INVOICE", "TAX", "GST", "THANK",
      "CHANGE", "CASH", "AMOUNT", "PAYABLE", "DATE", "TEL", "FAX", "EMAIL" }

MerchantMaxLines == 12
MerchantMaxChars == 60
MerchantMinAlpha == 3

(***************************************************************************)
(* Field extractor: public functions.                                      *)
(***************************************************************************)
\* extract_date(text). DatePatternOrder is the order of DATE_PATTERNS.
\* (Mut_DatePatternOrder: the ISO pattern listed first.)
Mut_DatePatternOrder == <<2, 1>>
DatePatternOrder == <<1, 2>>

RECURSIVE DateTryFrom(_, _)
DateTryFrom(t, n) ==
    IF n > Len(DatePatternOrder) THEN PyNone
    ELSE LET m == DateSearch(DatePatternOrder[n], t) IN
         IF m # "" THEN PyStr(m) ELSE DateTryFrom(t, n + 1)

extract_date(x) ==
    LET st == _safe_text(x) IN
    IF st.kind # "str" THEN PyRaise        \* .upper() on a non-str
    ELSE LET t == Upper(st.s) IN
         IF t = "" THEN PyNone ELSE DateTryFrom(t, 1)

\* Values of one hinted line: MONEY_RE.finditer(ln.replace(",", ".")),
\* each m.group(1).replace(",", "."), time-like values skipped.
RECURSIVE DropTimeish(_)
DropTimeish(ms) ==
    IF ms = <<>> THEN <<>>
    ELSE (IF TimeishFullmatch(ReplaceComma(Head(ms).val))
             THEN <<>> ELSE <<ReplaceComma(Head(ms).val)>>)
         \o DropTimeish(Tail(ms))
LineValues(ln) == DropTimeish(MoneyFindIter(ReplaceComma(ln)))

\* The hint pass: for hint in TOTAL_LINE_HINTS: for ln, up in upper_lines: ...
\* (Mut_HintPass: the loops nested the other way round.)
Mut_HintPass(lines) ==
    ConcatAll([l \in 1..Len(lines) |->
        ConcatAll([h \in 1..Len(TOTAL_LINE_HINTS) |->
            IF Contains(Upper(lines[l]), TOTAL_LINE_HINTS[h])
               THEN LineValues(lines[l]) ELSE <<>>])])
HintPass(lines) ==
    ConcatAll([h \in 1..Len(TOTAL_LINE_HINTS) |->
        ConcatAll([l \in 1..Len(lines) |->
            IF Contains(Upper(lines[l]), TOTAL_LINE_HINTS[h])
               THEN LineValues(lines[l]) ELSE <<>>])])

\* lines = [ln.strip() for ln in raw.splitlines() if ln.strip()] or [raw.strip()]
TotalsLines(raw) ==
    IF NonEmptyLines(raw) = <<>> THEN <<Strip(raw)>> ELSE NonEmptyLines(raw)

\* The fallback pass over the whole text.
FallbackPass(raw) == DropTimeish(MoneyFindIter(ReplaceComma(raw)))

\* extract_totals(text)
\* (Mut_extract_totals: the fallback pass run even when the hint pass
\* collected candidates.)
Mut_extract_totals(x) ==
    LET st == _safe_text(x) IN
    IF st.kind # "str" THEN PyRaise
    ELSE LET raw == st.s IN
         IF Strip(raw) = "" THEN PyList(<<>>)
         ELSE PyList(_dedup_preserve_order(
                  HintPass(TotalsLines(raw)) \o FallbackPass(raw)))
extract_totals(x) ==
    LET st == _safe_text(x) IN
    IF st.kind # "str" THEN PyRaise        \* .strip() on a non-str
    ELSE LET raw == st.s IN
         IF Strip(raw) = "" THEN PyList(<<>>)
         ELSE LET candidates == _dedup_preserve_order(HintPass(TotalsLines(raw))) IN
              IF candidates # <<>> THEN PyList(candidates)
              ELSE PyList(_dedup_preserve_order(FallbackPass(raw)))

\* guess_merchant(text)
Take(s, n) == SubSeq(s, 1, IF Len(s) < n THEN Len(s) ELSE n)

\* any(bad in up for bad in MERCHANT_BAD), up = ln.upper()
\* (Mut_IsBadMerchantLine: the line not upper-cased.)
Mut_IsBadMerchantLine(ln) == \E bad \in MERCHANT_BAD : Contains(ln, bad)
IsBadMerchantLine(ln) == \E bad \in MERCHANT_BAD : Contains(Upper(ln), bad)

RECURSIVE MerchantScan(_)
MerchantScan(lines) ==
    IF lines = <<>> THEN PyNone
    ELSE IF IsBadMerchantLine(Head(lines)) THEN MerchantScan(Tail(lines))
    ELSE IF AlphaCount(Head(lines)) >= MerchantMinAlpha
            THEN PyStr(Take(Head(lines), MerchantMaxChars))
            ELSE MerchantScan(Tail(lines))

guess_merchant(x) ==
    LET st == _safe_text(x) IN
    IF st.kind # "str" THEN PyRaise        \* .strip() on a non-str
    ELSE LET t == st.s IN
         IF Strip(t) = "" THEN PyNone
         ELSE LET lines == NonEmptyLines(t) IN
              IF lines = <<>>
                 THEN IF AlphaCount(Strip(t)) > 0
                         THEN PyStr(Take(Strip(t), MerchantMaxChars)) ELSE PyNone
                 ELSE MerchantScan(Take(lines, MerchantMaxLines))

(***************************************************************************)
(* Calls of the extractor functions on bounded sets of inputs.             *)
(***************************************************************************)
SelIdle ==
    /\ score = [m \in Modes |-> 0]
    /\ fails = [m \in Modes |-> FALSE]
    /\ margin = 0
    /\ pc = "idle"
    /\ idx = 1
    /\ best = NoOutcome
    /\ chosen = <<>>

SeqsUpTo(V, n) == UNION {[1..k -> V] : k \in 1..n}

RECURSIVE JoinWith(_, _)
JoinWith(ls, sep) ==
    IF ls = <<>> THEN ""
    ELSE IF Len(ls) = 1 THEN Head(ls)
    ELSE Head(ls) \o sep \o JoinWith(Tail(ls), sep)

RECURSIVE Repeat(_, _)
Repeat(x, n) == IF n = 0 THEN <<>> ELSE <<x>> \o Repeat(x, n - 1)

(***************************************************************************)
(* Text normalizer: clean_ocr_text (src/app/text_cleaning.py).             *)
(***************************************************************************)
PunctChars == {",", ".", ";", ":"}
BlankChars == {" ", "\t"}

\* Length of the run of characters of class cs that starts at position i.
RunLen(s, i, cs) ==
    LET stop == {j \in i..Len(s) : Ch(s, j) \notin cs} IN
    IF stop = {} THEN Len(s) + 1 - i
    ELSE (CHOOSE j \in stop : \A k \in stop : j <= k) - i

\* The five rewrites of a line, in the order the code applies them:
\*   1: (\d{1,2}):(\d{2})[;](\d{2})  ->  \1:\2:\3
\*   2: (\d)\s*,\s*(\d{2})\b         ->  \1.\2
\*   3: (\d)\s*,\.\s*(\d{2})\b       ->  \1.\2
\*   4: \s+([,.;:])                  ->  \1
\*   5: [ \t]{2,}                    ->  " "
\* CleanMatchLen(r, s, i): length of the match of rewrite r at position i, or 0.
CleanMatchLen(r, s, i) ==
    CASE r = 1 ->
           LET ks == {k \in 1..2 :
                        /\ DigitsAt(s, i, k)
                        /\ Ch(s, i + k) = ":"
                        /\ DigitsAt(s, i + k + 1, 2)
                        /\ Ch(s, i + k + 3) = ";"
                        /\ DigitsAt(s, i + k + 4, 2)}
           IN IF ks = {} THEN 0 ELSE SetMax(ks) + 6
      [] r = 2 ->
           LET j == i + 1 + RunLen(s, i + 1, SpaceChars)
               k == j + 1 + RunLen(s, j + 1, SpaceChars)
           IN IF /\ Ch(s, i) \in DigitChars
                 /\ Ch(s, j) = ","
                 /\ DigitsAt(s, k, 2)
                 /\ WordBoundary(s, k + 2)
                 THEN k + 2 - i ELSE 0
      [] r = 3 ->
           LET j == i + 1 + RunLen(s, i + 1, SpaceChars)
               k == j + 2 + RunLen(s, j + 2, SpaceChars)
           IN IF /\ Ch(s, i) \in DigitChars
                 /\ Ch(s, j) = ","
                 /\ Ch(s, j + 1) = "."
                 /\ DigitsAt(s, k, 2)
                 /\ WordBoundary(s, k + 2)
                 THEN k + 2 - i ELSE 0
      [] r = 4 ->
           LET n == RunLen(s, i, SpaceChars)
           IN IF n >= 1 /\ Ch(s, i + n) \in PunctChars THEN n + 1 ELSE 0
      [] OTHER ->
           LET n == RunLen(s, i, BlankChars)
           IN IF n >= 2 THEN n ELSE 0

\* The replacement text of the match of rewrite r at position i (length n).
CleanReplacement(r, s, i, n) ==
    CASE r = 1 -> SubSeq(s, i, i + n - 4) \o ":" \o SubSeq(s, i + n - 2, i + n - 1)
      [] r = 2 -> Ch(s, i) \o "." \o SubSeq(s, i + n - 2, i + n - 1)
      [] r = 3 -> Ch(s, i) \o "." \o SubSeq(s, i + n - 2, i + n - 1)
      [] r = 4 -> Ch(s, i + n - 1)
      [] OTHER -> " "

\* re.sub(pattern r, replacement, s): leftmost non-overlapping matches, the
\* search resuming where the previous match ended.
RECURSIVE ReSubFrom(_, _, _)
ReSubFrom(r, s, from) ==
    LET at == {i \in from..Len(s) : CleanMatchLen(r, s, i) > 0} IN
    IF at = {} THEN SubSeq(s, from, Len(s))
    ELSE LET i == CHOOSE i \in at : \A j \in at : i <= j
             n == CleanMatchLen(r, s, i)
         IN SubSeq(s, from, i - 1) \o CleanReplacement(r, s, i, n)
            \o ReSubFrom(r, s, i + n)
ReSub(r, s) == ReSubFrom(r, s, 1)

\* The body of the loop over lines: the rewrites 1..4, then 5 and strip().
CleanLine(ln) == Strip(ReSub(5, ReSub(4, ReSub(3, ReSub(2, ReSub(1, ln))))))

RECURSIVE CleanLines(_)
CleanLines(ls) ==
    IF ls = <<>> THEN <<>>
    ELSE (IF CleanLine(Head(ls)) # "" THEN <<CleanLine(Head(ls))>> ELSE <<>>)
         \o CleanLines(Tail(ls))

\* clean_ocr_text(text): "" for a non-str or blank argument
clean_ocr_text(x) ==
    IF x.kind # "str" THEN PyStr("")
    ELSE IF Strip(x.s) = "" THEN PyStr("")
    ELSE PyStr(Strip(JoinWith(CleanLines(SplitLines(x.s)), "\n")))

TotalsVocab ==
    { "ROUNDED TOTAL 45.50", "SUBTOTAL 45.00", " CASH 50,00 ", "CHANGE 4.50",
      "09.21", "TOTAL 12.34", "Total: 45,50 9.99", "ITEM 9.99 45.00" }
TotalsInputs ==
    {PyStr(JoinWith(ls, "\n")) : ls \in SeqsUpTo(TotalsVocab, MaxTotalsLines)}

DateVocab ==
    { "19/02/2026", "2018-02-09", "19-02-18", "119/02/2026", "02/2026",
      "date:", "2018/02/09x", "01-01-2019\n" }
DateInputs ==
    {PyStr(JoinWith(ts, " ")) : ts \in SeqsUpTo(DateVocab, MaxDateTokens)}

LongLine == "Kedai Runcit Dan Pasar Mini Seri Maju Jaya Enterprise (0012345-X)"
MerchantVocab ==
    { "TOTAL 5.00", "ACME STORE SDN BHD", "THANK YOU", "12", "ab 12",
      "  Tel 123", " ", LongLine, " kedai kopi " }
FillVocab == {"12", "Tax"}
FillCounts == {0, 1} \cup ((MerchantMaxLines - 2)..MaxFill)
MerchantExample == "TOTAL 5.00\nACME STORE SDN BHD\nTHANK YOU"
MerchantInputs ==
    {PyStr(JoinWith(Repeat(f, n) \o ls, "\n")) :
        f \in FillVocab, n \in FillCounts,
        ls \in SeqsUpTo(MerchantVocab, MaxMerchantLines)}
    \cup {PyStr(MerchantExample)}

BlankInputs ==
    {PyStr("")}
    \cup {PyStr(JoinWith(cs, "")) : cs \in SeqsUpTo({" ", "\t", "\n", VT, US}, MaxBlank)}
NonStrInputs ==
    {PyNone, PyInt(0), PyInt(5), PyList(<<>>), PyList(<<"TOTAL 5.00">>)}

ExtInitOn(inputs) ==
    /\ SelIdle
    /\ LexIdle
    /\ ForkIdle
    /\ arg \in inputs
    /\ fn = ""
    /\ xpc = "call"
    /\ res = PyNone

CallExtractDate ==
    /\ xpc = "call"
    /\ fn' = "extract_date"
    /\ res' = extract_date(arg)
    /\ xpc' = "ret"
    /\ UNCHANGED <<arg, selVars, lexVars, forkVars>>

CallExtractTotals ==
    /\ xpc = "call"
    /\ fn' = "extract_totals"
    /\ res' = extract_totals(arg)
    /\ xpc' = "ret"
    /\ UNCHANGED <<arg, selVars, lexVars, forkVars>>

CallGuessMerchant ==
    /\ xpc = "call"
    /\ fn' = "guess_merchant"
    /\ res' = guess_merchant(arg)
    /\ xpc' = "ret"
    /\ UNCHANGED <<arg, selVars, lexVars, forkVars>>

SpecTotals == ExtInitOn(TotalsInputs) /\ [][CallExtractTotals]_vars
SpecDate == ExtInitOn(DateInputs) /\ [][CallExtractDate]_vars
SpecMerchant == ExtInitOn(MerchantInputs) /\ [][CallGuessMerchant]_vars
SpecDegenerate ==
    ExtInitOn(BlankInputs \cup NonStrInputs)
    /\ [][CallExtractDate \/ CallExtractTotals \/ CallGuessMerchant]_vars

\* Receipts whose lines carry hints that contain one another.
HintVocab ==
    { "SUBTOTAL 45.00", "SUB TOTAL 44.00", "TOTAL 50.00", "TOTAL: 51.00",
      "ROUNDED TOTAL 50.05", "CASH 60.00" }
HintInputs ==
    {PyStr(JoinWith(ls, "\n")) : ls \in SeqsUpTo(HintVocab, MaxHintLines)}
SpecHints == ExtInitOn(HintInputs) /\ [][CallExtractTotals]_vars

CleanVocab == {"1", "11", ",", ".", " ", ":", ";", "\n"}
CleanInputs ==
    {PyStr(JoinWith(ts, "")) : ts \in SeqsUpTo(CleanVocab, MaxCleanTokens)}

CallCleanOcrText ==
    /\ xpc = "call"
    /\ fn' = "clean_ocr_text"
    /\ res' = clean_ocr_text(arg)
    /\ xpc' = "ret"
    /\ UNCHANGED <<arg, selVars, lexVars, forkVars>>

\* The normalizer is applied to its own output: the first output becomes the
\* argument of the second call.
CallCleanOcrTextAgain ==
    /\ xpc = "ret"
    /\ fn = "clean_ocr_text"
    /\ arg' = res
    /\ fn' = "clean_ocr_text again"
    /\ res' = clean_ocr_text(res)
    /\ xpc' = "ret"
    /\ UNCHANGED <<selVars, lexVars, forkVars>>

SpecClean ==
    ExtInitOn(CleanInputs) /\ [][CallCleanOcrText \/ CallCleanOcrTextAgain]_vars

(***************************************************************************)
(* The lexicon cache.  text_cleaning.py declares the module global         *)
(* _symspell_singleton, initialised to None, and the loader                *)
(* _load_symspell.  Nothing in the module assigns or reads the global and  *)
(* the module holds no lock: a caller that needs the dictionary calls the  *)
(* loader, and every call loads again.  Threads may be switched between    *)
(* any two steps of the loader.  scripts/build_lexicon.py rewrites the     *)
(* dictionary file, in a process of its own.                               *)
(***************************************************************************)
\* The dictionary file at rest: complete, absent, or one load_dictionary
\* rejects.  While build_lexicon.py rewrites it, it is "empty", then "partial".
LexiconStates == {"ok", "missing", "malformed"}

LexInit ==
    /\ SelIdle
    /\ ExtIdle
    /\ ForkIdle
    /\ singleton = "None"
    /\ lexicon \in LexiconStates
    /\ loads = 0
    /\ tpc = [t \in Threads |-> "idle"]
    /\ sym = [t \in Threads |-> "None"]
    /\ got = [t \in Threads |-> "None"]

\* A thread calls _load_symspell(lexicon_dict_path).
LexCall(t) ==
    /\ tpc[t] = "idle"
    /\ tpc' = [tpc EXCEPT ![t] = "exists"]
    /\ UNCHANGED <<singleton, lexicon, loads, sym, got, selVars, extVars, forkVars>>

\* _load_symspell: a missing file makes the loader return None.
LexPathExists(t) ==
    /\ tpc[t] = "exists"
    /\ tpc' = [tpc EXCEPT ![t] = IF lexicon = "missing" THEN "return" ELSE "construct"]
    /\ UNCHANGED <<singleton, lexicon, loads, sym, got, selVars, extVars, forkVars>>

\* _load_symspell: the local SymSpell object is constructed, still empty.
LexConstruct(t) ==
    /\ tpc[t] = "construct"
    /\ sym' = [sym EXCEPT ![t] = "empty"]
    /\ tpc' = [tpc EXCEPT ![t] = "load"]
    /\ UNCHANGED <<singleton, lexicon, loads, got, selVars, extVars, forkVars>>

\* What a call of sym.load_dictionary can do: return True, return False, or
\* raise.  The library is not part of the repository, and the loader looks
\* at nothing but the value returned.
LoadOutcomes == {"True", "False", "raise"}

\* _load_symspell: load_dictionary reads the file as it is now into the
\* local object.  A true result makes the loader return the object, with
\* the lines it read (all of a complete file, else the lines there are); a
\* false result makes it return None; an exception leaves the loader.
LexLoadDictionary(t) ==
    /\ tpc[t] = "load"
    /\ \E outcome \in LoadOutcomes :
         CASE outcome = "True" ->
                /\ sym' = [sym EXCEPT ![t] = IF lexicon = "ok" THEN "loaded" ELSE "partial"]
                /\ loads' = loads + 1
                /\ tpc' = [tpc EXCEPT ![t] = "return"]
                /\ UNCHANGED got
           [] outcome = "False" ->
                /\ sym' = [sym EXCEPT ![t] = "None"]
                /\ tpc' = [tpc EXCEPT ![t] = "return"]
                /\ UNCHANGED <<loads, got>>
           [] outcome = "raise" ->
                /\ got' = [got EXCEPT ![t] = "raised"]
                /\ tpc' = [tpc EXCEPT ![t] = "done"]
                /\ UNCHANGED <<loads, sym>>
    /\ UNCHANGED <<singleton, lexicon, selVars, extVars, forkVars>>

\* _load_symspell returns its local object, or None; the global is left as
\* it is.
LexReturn(t) ==
    /\ tpc[t] = "return"
    /\ got' = [got EXCEPT ![t] = sym[t]]
    /\ tpc' = [tpc EXCEPT ![t] = "done"]
    /\ UNCHANGED <<singleton, lexicon, loads, sym, selVars, extVars, forkVars>>

\* build_lexicon.py main(): open(out_path, "w") creates or truncates the file,
BuildOpen ==
    /\ lexicon \in LexiconStates
    /\ lexicon' = "empty"
    /\ UNCHANGED <<singleton, loads, tpc, sym, got, selVars, extVars, forkVars>>

\* a line per token is written,
BuildWrite ==
    /\ lexicon = "empty"
    /\ lexicon' = "partial"
    /\ UNCHANGED <<singleton, loads, tpc, sym, got, selVars, extVars, forkVars>>

\* and the file is closed with all its lines.
BuildClose ==
    /\ lexicon \in {"empty", "partial"}
    /\ lexicon' = "ok"
    /\ UNCHANGED <<singleton, loads, tpc, sym, got, selVars, extVars, forkVars>>

LexNext ==
    \/ \E t \in Threads :
        \/ LexCall(t)
        \/ LexPathExists(t)
        \/ LexConstruct(t)
        \/ LexLoadDictionary(t)
        \/ LexReturn(t)
    \/ BuildOpen
    \/ BuildWrite
    \/ BuildClose

SpecLexicon == LexInit /\ [][LexNext]_vars

(***************************************************************************)
(* Lexicon correction (src/app/text_cleaning.py).                          *)
(***************************************************************************)
LowerCh(c) ==
    IF c \in UpperChars
    THEN Ch(LowerSeq, CHOOSE i \in 1..Len(UpperSeq) : Ch(UpperSeq, i) = c)
    ELSE c
RECURSIVE Lower(_)
Lower(s) ==
    IF Len(s) = 0 THEN ""
    ELSE IF Len(s) = 1 THEN LowerCh(s)
    ELSE Lower(SubSeq(s, 1, Len(s) \div 2)) \o Lower(SubSeq(s, Len(s) \div 2 + 1, Len(s)))

\* str.isupper(): at least one cased character and no lower-case one
IsUpper(s) ==
    /\ \E i \in 1..Len(s) : Ch(s, i) \in UpperChars
    /\ \A i \in 1..Len(s) : Ch(s, i) \notin LowerChars
\* str.capitalize()
Capitalize(s) == Upper(Ch(s, 1)) \o Lower(SubSeq(s, 2, Len(s)))

_WORD_RE_MinLen == 3
\* _WORD_RE = [A-Za-z]{3,} at position i: the length matched, 0 if none
WordMatchLen(s, i) ==
    LET n == RunLen(s, i, AlphaChars) IN IF n >= _WORD_RE_MinLen THEN n ELSE 0

\* _preserve_case(original, corrected): original[0] of an empty original
\* raises IndexError
_preserve_case(original, corrected) ==
    IF corrected = "" THEN PyStr(original)
    ELSE IF IsUpper(original) THEN PyStr(Upper(corrected))
    ELSE IF original = "" THEN PyRaise
    ELSE IF Ch(original, 1) \in UpperChars THEN PyStr(Capitalize(corrected))
    ELSE PyStr(corrected)

\* sym.lookup(w, Verbosity.TOP, max_edit_distance): the suggestions of the
\* dictionary collaborator for a lower-cased word, here a dictionary that
\* holds "total" and "cash".
SymLookup(w) ==
    CASE w \in {"totl", "total", "totai"} -> <<"total">>
      [] w \in {"cahs", "cash"} -> <<"cash">>
      [] OTHER -> <<>>

ReplMinLen == 4
\* repl(match), the nested function of correct_with_lexicon
repl(w) ==
    IF \E i \in 1..Len(w) : Ch(w, i) \in DigitChars THEN PyStr(w)
    ELSE IF IsUpper(w) THEN PyStr(w)
    ELSE IF Len(w) < ReplMinLen THEN PyStr(w)
    ELSE LET suggestions == SymLookup(Lower(w)) IN
         IF suggestions = <<>> THEN PyStr(w)
         ELSE _preserve_case(w, suggestions[1])

\* correct_with_lexicon(text, sym): the body defines repl and ends; no
\* substitution is run and nothing is returned, so the call yields None.
correct_with_lexicon(x) == PyNone

CorrectVocab ==
    {"totl", "Totl", "TOTL", "cahs", "the", "ab", "x1", "12.50", "hello", "Totai,"}
CorrectInputs ==
    {PyStr(JoinWith(ts, " ")) : ts \in SeqsUpTo(CorrectVocab, MaxCorrectTokens)}

CallCorrectWithLexicon ==
    /\ xpc = "call"
    /\ fn' = "correct_with_lexicon"
    /\ res' = correct_with_lexicon(arg)
    /\ xpc' = "ret"
    /\ UNCHANGED <<arg, selVars, lexVars, forkVars>>

SpecCorrect == ExtInitOn(CorrectInputs) /\ [][CallCorrectWithLexicon]_vars

(***************************************************************************)
(* Python floats (IEEE 754 binary64, round to nearest, ties to even), as   *)
(* the scoring code computes with them.  A float is a record               *)
(* [neg, man, exp] of value (-1)^neg * man * 2^exp; man is a natural       *)
(* number of exactly MantissaBits bits, and the empty number for 0.0.      *)
(* Natural numbers of any size are sequences of limbs, digits in base      *)
(* LimbBase, least significant first, without leading zero limbs.          *)
(* Infinities, NaN and subnormal numbers do not occur in the scores.       *)
(***************************************************************************)
LimbBits == 15
LimbBase == 2 ^ LimbBits
MantissaBits == 53
Min(a, b) == IF a < b THEN a ELSE b

RECURSIVE NTrim(_)
NTrim(a) ==
    IF a = <<>> THEN a
    ELSE IF a[Len(a)] = 0 THEN NTrim(SubSeq(a, 1, Len(a) - 1))
    ELSE a
NAdd(a, b) ==
    LET RECURSIVE From(_, _)
        From(i, carry) ==
            LET t == (IF i <= Len(a) THEN a[i] ELSE 0)
                     + (IF i <= Len(b) THEN b[i] ELSE 0) + carry
            IN IF i > Len(a) /\ i > Len(b) THEN (IF carry = 0 THEN <<>> ELSE <<carry>>)
               ELSE <<t % LimbBase>> \o From(i + 1, t \div LimbBase)
    IN From(1, 0)
\* a - b for a >= b
NSub(a, b) ==
    LET RECURSIVE From(_, _)
        From(i, borrow) ==
            LET t == a[i] - (IF i <= Len(b) THEN b[i] ELSE 0) - borrow IN
            IF i > Len(a) THEN <<>>
            ELSE <<(t + LimbBase) % LimbBase>> \o From(i + 1, IF t < 0 THEN 1 ELSE 0)
    IN NTrim(From(1, 0))
NLess(a, b) ==
    IF Len(a) # Len(b) THEN Len(a) < Len(b)
    ELSE \E i \in 1..Len(a) :
            /\ a[i] < b[i]
            /\ \A j \in (i + 1)..Len(a) : a[j] = b[j]
\* a * k for a limb k
NMulSmall(a, k) ==
    LET RECURSIVE From(_, _)
        From(i, carry) ==
            LET t == a[i] * k + carry IN
            IF i > Len(a) THEN (IF carry = 0 THEN <<>> ELSE <<carry>>)
            ELSE <<t % LimbBase>> \o From(i + 1, t \div LimbBase)
    IN NTrim(From(1, 0))
\* a * 2^k
NShiftLeft(a, k) ==
    LET Pad(m) == IF m = <<>> THEN <<>> ELSE [i \in 1..(k \div LimbBits) |-> 0] \o m
    IN Pad(NMulSmall(a, 2 ^ (k % LimbBits)))
NMul(a, b) ==
    LET RECURSIVE From(_)
        From(j) ==
            IF j > Len(b) THEN <<>>
            ELSE NAdd(NShiftLeft(NMulSmall(a, b[j]), LimbBits * (j - 1)), From(j + 1))
    IN From(1)
\* quotient and remainder of a by d, 0 < d < LimbBase
NDivSmall(a, d) ==
    LET RECURSIVE From(_, _)
        From(i, rem) ==
            LET Put(digit, rest) == [q |-> rest.q \o <<digit>>, r |-> rest.r]
                cur == rem * LimbBase + a[i]
            IN IF i = 0 THEN [q |-> <<>>, r |-> rem]
               ELSE Put(cur \div d, From(i - 1, cur % d))
        Trimmed(x) == [q |-> NTrim(x.q), r |-> x.r]
    IN Trimmed(From(Len(a), 0))
\* a \div 2^k, and whether a bit that is set was shifted out
NShiftRight(a, k) ==
    LET limbs == Min(k \div LimbBits, Len(a))
        Result(d) == [q |-> d.q, sticky |-> d.r # 0 \/ \E i \in 1..limbs : a[i] # 0]
    IN Result(NDivSmall(SubSeq(a, limbs + 1, Len(a)), 2 ^ (k % LimbBits)))
NBitLen(a) ==
    IF a = <<>> THEN 0
    ELSE LimbBits * (Len(a) - 1)
         + Cardinality({j \in 0..(LimbBits - 1) : 2 ^ j <= a[Len(a)]})
\* (a + f) / 2^k rounded to the nearest natural, a tie to the even one, where
\* 0 <= f < 1 and f > 0 exactly if sticky, k > 0: in a shifted by k - 1 the
\* last bit is the half and the bit before it the last one kept.
NRoundShift(a, k, sticky) ==
    LET Rounded(sh) ==
            NAdd(NShiftRight(sh.q, 1).q,
                 IF sh.q[1] % 2 = 1 /\ (sticky \/ sh.sticky \/ sh.q[1] % 4 = 3)
                 THEN <<1>> ELSE <<>>)
    IN Rounded(NShiftRight(a, k - 1))

FloatZero == [neg |-> FALSE, man |-> <<>>, exp |-> 0]
\* The float nearest to (-1)^neg * (n + f) * 2^e, where 0 <= f < 1 and
\* f > 0 exactly if sticky; a sticky n has more than MantissaBits + 1 bits.
\* A longer n is rounded to MantissaBits bits; when the rounding carries
\* into one bit more, that bit is removed in a second, exact, step.
RECURSIVE FloatRound(_, _, _, _)
FloatRound(neg, n, e, sticky) ==
    LET k == NBitLen(n) - MantissaBits IN
    IF n = <<>> THEN FloatZero
    ELSE IF k <= 0 THEN [neg |-> neg, man |-> NShiftLeft(n, 0 - k), exp |-> e + k]
    ELSE FloatRound(neg, NRoundShift(n, k, sticky), e + k, FALSE)

\* p / q of two ints, 0 <= p and 0 < q < LimbBase (true division), which is
\* also float(p) / float(q) and the float a decimal literal p/q denotes.
\* The quotient is taken to 70 binary places, more than a float holds.
FloatOfRatio(p, q) ==
    LET RECURSIVE OfInt(_)
        OfInt(n) == IF n = 0 THEN <<>> ELSE <<n % LimbBase>> \o OfInt(n \div LimbBase)
        d == NDivSmall(NShiftLeft(OfInt(p), 70), q)
    IN FloatRound(FALSE, d.q, 0 - 70, d.r # 0)
\* x / n for a float x and an int n, 0 < n < LimbBase; the quotient is
\* taken to 20 binary places below the mantissa of x.
FloatDivInt(x, n) ==
    LET d == NDivSmall(NShiftLeft(x.man, 20), n) IN
    FloatRound(x.neg, d.q, x.exp - 20, d.r # 0)
\* x * y
FloatMul(x, y) ==
    IF x.man = <<>> \/ y.man = <<>> THEN FloatZero
    ELSE FloatRound(x.neg # y.neg, NMul(x.man, y.man), x.exp + y.exp, FALSE)
\* x + y: a and b are the mantissas brought to the smaller exponent
FloatAdd(x, y) ==
    LET e == Min(x.exp, y.exp)
        Sign(a, b) == IF x.neg = y.neg \/ ~NLess(a, b) THEN x.neg ELSE y.neg
        Magnitude(a, b) ==
            IF x.neg = y.neg THEN NAdd(a, b)
            ELSE IF NLess(a, b) THEN NSub(b, a) ELSE NSub(a, b)
    IN IF x.man = <<>> THEN y
       ELSE IF y.man = <<>> THEN x
       ELSE FloatRound(Sign(NShiftLeft(x.man, x.exp - e), NShiftLeft(y.man, y.exp - e)),
                       Magnitude(NShiftLeft(x.man, x.exp - e), NShiftLeft(y.man, y.exp - e)),
                       e, FALSE)
\* x > y
FloatGreater(x, y) ==
    LET e == Min(x.exp, y.exp)
        Aligned(a, b) == IF x.neg THEN NLess(a, b) ELSE NLess(b, a)
    IN IF x.man = <<>> THEN y.man # <<>> /\ y.neg
       ELSE IF y.man = <<>> THEN ~x.neg
       ELSE IF x.neg # y.neg THEN y.neg
       ELSE Aligned(NShiftLeft(x.man, x.exp - e), NShiftLeft(y.man, y.exp - e))

(***************************************************************************)
(* The two forks of the selector with their scoring (app.py and            *)
(* src/run_sroie_eval.py), on the recognition results of each mode.        *)
(* A result is a record [text, conf], conf in tenths: the confidence the   *)
(* recogniser reports is the float conf / 10.  Scores, confidences and     *)
(* margins are floats.                                                     *)
(***************************************************************************)
TokenVocab ==
    { [text |-> "ab", conf |-> 9], [text |-> " c.", conf |-> 5],
      [text |-> "", conf |-> 2] }
ForkResults == {<<>>} \cup SeqsUpTo(TokenVocab, MaxForkTokens)

\* re.sub(r"\s+", " ", s): every run of white space becomes one space
RECURSIVE CollapseSpaceFrom(_, _)
CollapseSpaceFrom(s, from) ==
    LET at == {i \in from..Len(s) : Ch(s, i) \in SpaceChars} IN
    IF at = {} THEN SubSeq(s, from, Len(s))
    ELSE LET i == CHOOSE i \in at : \A j \in at : i <= j IN
         SubSeq(s, from, i - 1) \o " " \o CollapseSpaceFrom(s, i + RunLen(s, i, SpaceChars))

\* re.sub(r"[^A-Z0-9 ]", "", s)
RECURSIVE KeepUpperDigitSpace(_)
KeepUpperDigitSpace(s) ==
    IF Len(s) = 0 THEN ""
    ELSE IF Len(s) = 1
            THEN (IF s \in UpperChars \cup DigitChars \cup {" "} THEN s ELSE "")
    ELSE KeepUpperDigitSpace(SubSeq(s, 1, Len(s) \div 2))
         \o KeepUpperDigitSpace(SubSeq(s, Len(s) \div 2 + 1, Len(s)))

\* normalize_text(s) of src/evaluate.py
\* (Mut_normalize_text: the white space runs not collapsed.)
Mut_normalize_text(s) == KeepUpperDigitSpace(Strip(Upper(s)))
normalize_text(s) == KeepUpperDigitSpace(CollapseSpaceFrom(Strip(Upper(s)), 1))

\* parts = [r.get("text", "") for r in results if r.get("text")]
RECURSIVE TextParts(_)
TextParts(rs) ==
    IF rs = <<>> THEN <<>>
    ELSE (IF Head(rs).text # "" THEN <<Head(rs).text>> ELSE <<>>) \o TextParts(Tail(rs))

\* sum(float(r.get("conf", 0.0)) for r in results): added left to right
ConfSum(rs) ==
    LET RECURSIVE From(_, _)
        From(i, acc) ==
            IF i > Len(rs) THEN acc
            ELSE From(i + 1, FloatAdd(acc, FloatOfRatio(rs[i].conf, 10)))
    IN From(1, FloatZero)

\* sum(ch.isalnum() for ch in t)
AlnumCount(t) ==
    Cardinality({i \in 1..Len(t) : Ch(t, i) \in AlphaChars \cup DigitChars})
LengthCap == 80


\* app.py
app_ocr_text_from_results(rs) == Strip(JoinWith(TextParts(rs), "\n"))
app_mean_conf(rs) ==
    IF rs = <<>> THEN FloatZero ELSE FloatDivInt(ConfSum(rs), SetMax({Len(rs), 1}))
app_text_quality_score(text) ==
    LET t == normalize_text(text) IN
    IF t = "" THEN FloatZero
    ELSE FloatAdd(FloatOfRatio(AlnumCount(t), SetMax({Len(t), 1})),
                  FloatOfRatio(Min(Len(t), LengthCap), LengthCap))
app_blended_score(conf, text) ==
    FloatAdd(FloatMul(FloatOfRatio(6, 10), conf),
             FloatMul(FloatOfRatio(4, 10), app_text_quality_score(text)))
\* run_ocr_on, given the results the recogniser returns for the mode
app_outcome(mode, rs) ==
    LET text == app_ocr_text_from_results(rs)
        conf == app_mean_conf(rs)
    IN [mode |-> mode, text |-> text, conf |-> conf,
        score |-> app_blended_score(conf, text)]
\* the outcomes on the result lists within the bounds, each computed once
app_outcomes == {<<rs, app_outcome("none", rs)>> : rs \in ForkResults}
app_run_ocr_on(byMode, mode) ==
    IF byMode[mode] \in ForkResults
    THEN [(CHOOSE p \in app_outcomes : p[1] = byMode[mode])[2] EXCEPT !.mode = mode]
    ELSE app_outcome(mode, byMode[mode])
\* src/run_sroie_eval.py
eval_ocr_text_from_results(rs) == Strip(JoinWith(TextParts(rs), " "))
eval_mean_conf(rs) ==
    IF rs = <<>> THEN FloatZero ELSE FloatDivInt(ConfSum(rs), SetMax({Len(rs), 1}))
eval_text_quality_score(text) ==
    LET t == normalize_text(text) IN
    IF t = "" THEN FloatZero
    ELSE FloatAdd(FloatOfRatio(AlnumCount(t), SetMax({Len(t), 1})),
                  FloatOfRatio(Min(Len(t), LengthCap), LengthCap))
eval_blended_score(conf, text) ==
    FloatAdd(FloatMul(FloatOfRatio(6, 10), conf),
             FloatMul(FloatOfRatio(4, 10), eval_text_quality_score(text)))
\* run_ocr_on returns the outcome without a score; choose_best_auto attaches it
eval_run_ocr_on(byMode, mode) ==
    [mode |-> mode, text |-> eval_ocr_text_from_results(byMode[mode]),
     conf |-> eval_mean_conf(byMode[mode])]
eval_scored(out) ==
    [mode |-> out.mode, text |-> out.text, conf |-> out.conf,
     score |-> eval_blended_score(out.conf, out.text)]
\* the scored outcomes on the result lists within the bounds, each computed once
eval_outcomes ==
    {<<rs, eval_scored(eval_run_ocr_on([m \in Modes |-> rs], "none"))>> : rs \in ForkResults}
eval_run_and_score(byMode, mode) ==
    IF byMode[mode] \in ForkResults
    THEN [(CHOOSE p \in eval_outcomes : p[1] = byMode[mode])[2] EXCEPT !.mode = mode]
    ELSE eval_scored(eval_run_ocr_on(byMode, mode))
\* The default margins of the two forks, 0.01 and 0.03, given to both.
ForkMargins == {FloatOfRatio(1, 100), FloatOfRatio(3, 100)}

\* The replacement test of the candidate loop on float scores, line 60 of
\* app.py and line 97 of run_sroie_eval.py:
\* out["score"] > best["score"] + margin
ScoreExceeds(a, b, mg) == FloatGreater(a, FloatAdd(b, mg))
\* the test on the scores and margins within the bounds, each computed once
ForkScores == {p[2].score : p \in app_outcomes \cup eval_outcomes}
ScoreExceedsKnown ==
    LET Among(scores) ==
            {<<t, ScoreExceeds(t[1], t[2], t[3])>> : t \in scores \X scores \X ForkMargins}
    IN Among(ForkScores)
ScoreDisplaces(out, cur, mg) ==
    LET Verdict(known, t) ==
            IF <<t, TRUE>> \in known THEN TRUE
            ELSE IF <<t, FALSE>> \in known THEN FALSE
            ELSE ScoreExceeds(t[1], t[2], t[3])
    IN Verdict(ScoreExceedsKnown, <<out.score, cur.score, mg>>)

\* app.py: choose_best_auto
RECURSIVE app_loop(_, _, _, _)
app_loop(byMode, mg, k, best0) ==
    IF k > Len(candidate_modes_for_auto) THEN best0
    ELSE LET m == candidate_modes_for_auto[k] IN
         IF m = "none" THEN app_loop(byMode, mg, k + 1, best0)
         ELSE LET Judge(out) ==
                      app_loop(byMode, mg, k + 1,
                               IF ScoreDisplaces(out, best0, mg) THEN out ELSE best0)
              IN Judge(app_run_ocr_on(byMode, m))
app_choose_best_auto(byMode, mg) == app_loop(byMode, mg, 1, app_run_ocr_on(byMode, "none"))

\* src/run_sroie_eval.py: choose_best_auto
RECURSIVE eval_loop(_, _, _, _)
eval_loop(byMode, mg, k, best0) ==
    IF k > Len(candidate_modes_for_auto) THEN best0
    ELSE LET mode == candidate_modes_for_auto[k] IN
         IF mode = "none" THEN eval_loop(byMode, mg, k + 1, best0)
         ELSE LET Judge(out) ==
                      eval_loop(byMode, mg, k + 1,
                                IF ScoreDisplaces(out, best0, mg) THEN out ELSE best0)
              IN Judge(eval_run_and_score(byMode, mode))
eval_choose_best_auto(byMode, mg) ==
    eval_loop(byMode, mg, 1, eval_run_and_score(byMode, "none"))


ForkInit ==
    /\ score = [m \in Modes |-> 0]
    /\ fails = [m \in Modes |-> FALSE]
    /\ margin \in ForkMargins
    /\ pc = "idle"
    /\ idx = 1
    /\ best = NoOutcome
    /\ chosen = <<>>
    /\ ExtIdle
    /\ LexIdle
    /\ results \in [Modes -> ForkResults]
    /\ picked = [f \in Forks |-> NoPick]

\* What a call leaves to observe: the outcome returned and the score the
\* fork computed for each mode on the way.
CallAppChooseBestAuto ==
    /\ picked["app"] = NoPick
    /\ picked' = [picked EXCEPT !["app"] =
                    [kind |-> "outcome",
                     best |-> app_choose_best_auto(results, margin),
                     scores |-> [m \in Modes |-> app_run_ocr_on(results, m).score]]]
    /\ UNCHANGED <<results, selVars, extVars, lexVars>>

\* The evaluation fork is run on the results the app fork was run on.
CallEvalChooseBestAuto ==
    /\ picked["app"] # NoPick
    /\ picked["eval"] = NoPick
    /\ picked' = [picked EXCEPT !["eval"] =
                    [kind |-> "outcome",
                     best |-> eval_choose_best_auto(results, margin),
                     scores |-> [m \in Modes |->
                                   eval_run_and_score(results, m).score]]]
    /\ UNCHANGED <<results, selVars, extVars, lexVars>>

SpecForks == ForkInit /\ [][CallAppChooseBestAuto \/ CallEvalChooseBestAuto]_vars

Returned(f) == xpc = "ret" /\ fn = f

\* C16: with margin >= 0, from the baseline on the score of best is at least
\* the baseline's score and every candidate evaluated so far has a score of
\* at most best's score plus margin (so this holds of the returned outcome),
\* and no iteration of the candidate loop lowers the score of best.
C16_BestNeverDecreases ==
    /\ [](( margin >= 0 /\ pc \in {"loop", "done"}) =>
            /\ best.score >= run_ocr_on("none").score
            /\ \A k \in 1..(idx - 1) :
                   run_ocr_on(candidate_modes_for_auto[k]).score <= best.score + margin)
    /\ [][(margin >= 0 /\ pc = "loop" /\ pc' = "loop") =>
             best'.score >= best.score]_vars

\* C16 witness: a finished run with margin 1 that returned a candidate better
\* than the baseline although a later candidate scored higher, by exactly
\* the margin.
C16_Witness ==
    /\ pc = "done"
    /\ margin = 1
    /\ best.mode = "clahe"
    /\ best.score > score["none"] + margin
    /\ score["denoise"] = best.score + margin

(***************************************************************************)
(* Claims about extract_totals.                                            *)
(***************************************************************************)
SetMin(S) == CHOOSE x \in S : \A y \in S : x <= y
Range(q) == {q[i] : i \in 1..Len(q)}
FirstIndex(q, v) == SetMin({i \in 1..Len(q) : q[i] = v})
NoDuplicates(q) == \A i, j \in 1..Len(q) : i # j => q[i] # q[j]

\* The non-time money values of the hinted lines of a text, each with the
\* index of a hint its line contains, the index of the line and the position
\* of the value in the line.
HintOccurrences(raw) ==
    LET lines == TotalsLines(raw)
        ValuesOf(h, l) ==
            LET ms == MoneyFindIter(ReplaceComma(lines[l])) IN
            { [h |-> h, l |-> l, p |-> ms[k].pos, v |-> ReplaceComma(ms[k].val)] :
                k \in {n \in 1..Len(ms) : ~TimeishFullmatch(ReplaceComma(ms[n].val))} }
    IN UNION { IF Contains(Upper(lines[l]), TOTAL_LINE_HINTS[h])
                  THEN ValuesOf(h, l) ELSE {} :
               h \in 1..Len(TOTAL_LINE_HINTS), l \in 1..Len(lines) }

KeyLess(a, b) ==
    \/ a.h < b.h
    \/ a.h = b.h /\ a.l < b.l
    \/ a.h = b.h /\ a.l = b.l /\ a.p < b.p

\* The first place (priority, line, position) at which a value is collected.
FirstKey(occ, v) ==
    CHOOSE a \in occ : a.v = v /\ \A b \in occ : b.v = v => (a = b \/ KeyLess(a, b))

RoundedTotalLines(raw) ==
    {l \in 1..Len(TotalsLines(raw)) :
        Contains(Upper(TotalsLines(raw)[l]), TOTAL_LINE_HINTS[1])}

\* C4: when a hinted line yields a value, extract_totals returns exactly the
\* hinted values, ordered by the priority index of the hint under which each
\* was first collected, then by line, then by position in the line; a value
\* of a ROUNDED TOTAL line precedes every value found only on other lines.
C4_HintPriorityOrder ==
    (Returned("extract_totals") /\ HintOccurrences(arg.s) # {}) =>
      LET occ == HintOccurrences(arg.s)
          out == res.items
          rounded == RoundedTotalLines(arg.s)
          key == [i \in 1..Len(out) |-> FirstKey(occ, out[i])]
          onRounded == {a.v : a \in {b \in occ : b.l \in rounded}}
          elsewhere == {a.v : a \in {b \in occ : b.l \notin rounded}}
      IN /\ Range(out) = {a.v : a \in occ}
         /\ \A i, j \in 1..Len(out) : i < j => KeyLess(key[i], key[j])
         /\ \A i, j \in 1..Len(out) :
                (out[i] \in onRounded /\ out[j] \in elsewhere \ onRounded) => i < j

\* C4 witness: the receipt SUBTOTAL / ROUNDED TOTAL / CASH, returned with the
\* ROUNDED TOTAL value first.
C4_Witness ==
    /\ Returned("extract_totals")
    /\ arg.s = "SUBTOTAL 45.00\nROUNDED TOTAL 45.50\n CASH 50,00 "
    /\ res = PyList(<<"45.50", "45.00", "50.00">>)

\* The scan whose values extract_totals returns: the hint pass when it
\* collects something, else the fallback pass.
ProducingScan(raw) ==
    IF HintPass(TotalsLines(raw)) # <<>>
       THEN HintPass(TotalsLines(raw)) ELSE FallbackPass(raw)

\* C5: the list returned by extract_totals has no two equal elements, holds
\* exactly the values of the scan that produced it, and lists them in the
\* order of their first occurrence in that scan.
C5_DedupFirstOccurrence ==
    Returned("extract_totals") =>
      LET out == res.items
          scan == ProducingScan(arg.s)
      IN /\ res.kind = "list"
         /\ NoDuplicates(out)
         /\ Range(out) = Range(scan)
         /\ \A i, j \in 1..Len(out) :
                i < j => FirstIndex(scan, out[i]) < FirstIndex(scan, out[j])

\* C5 witness: a returned list of at least two values whose scan collected
\* some value more than once.
C5_Witness ==
    /\ Returned("extract_totals")
    /\ Len(res.items) >= 2
    /\ Len(ProducingScan(arg.s)) > Len(res.items)

DigitSeq == "0123456789"
DigitVal(c) == (CHOOSE i \in 1..10 : Ch(DigitSeq, i) = c) - 1

\* H[H]:MM or H[H].MM with hour 0..23 and minute 00..59.
IsTimeShaped(v) ==
    \E hl \in 1..2 :
        /\ Len(v) = hl + 3
        /\ \A i \in (1..hl) \cup {hl + 2, hl + 3} : Ch(v, i) \in DigitChars
        /\ Ch(v, hl + 1) \in {":", "."}
        /\ (IF hl = 1 THEN DigitVal(Ch(v, 1))
                      ELSE 10 * DigitVal(Ch(v, 1)) + DigitVal(Ch(v, 2))) \in 0..23
        /\ (10 * DigitVal(Ch(v, hl + 2)) + DigitVal(Ch(v, hl + 3))) \in 0..59

\* C6: no element of the list returned by extract_totals is time-shaped, in
\* either phase; a text with the lines 09.21 and TOTAL 12.34 never yields 09.21.
C6_NoTimeShapedTotals ==
    Returned("extract_totals") =>
      /\ \A i \in 1..Len(res.items) : ~IsTimeShaped(res.items[i])
      /\ (Contains(arg.s, "09.21\nTOTAL 12.34")) =>
             \A i \in 1..Len(res.items) : res.items[i] # "09.21"

\* C6 witness: a text with the lines 09.21 and TOTAL 12.34 followed by a
\* ROUNDED TOTAL line, for which only the ROUNDED TOTAL amount is returned.
C6_Witness ==
    /\ Returned("extract_totals")
    /\ arg.s = "09.21\nTOTAL 12.34\nROUNDED TOTAL 45.50"
    /\ res = PyList(<<"45.50">>)

(***************************************************************************)
(* Claims about extract_date.                                              *)
(***************************************************************************)
DateMatchPositions(p, t) == {i \in 1..Len(t) : DateMatchLen(p, t, i) > 0}
LeftmostDateMatch(p, t) ==
    LET i == SetMin(DateMatchPositions(p, t))
    IN SubSeq(t, i, i + DateMatchLen(p, t, i) - 1)

\* C7: extract_date returns the leftmost match of the day-month-year pattern
\* if that pattern matches anywhere, else the leftmost match of the ISO
\* pattern, else absence; the returned text occurs verbatim in the input;
\* the text "19/02/2026" yields "19/02/2026".
C7_FirstPatternLeftmostMatch ==
    Returned("extract_date") =>
      LET t == Upper(arg.s) IN
      /\ res = IF DateMatchPositions(1, t) # {} THEN PyStr(LeftmostDateMatch(1, t))
               ELSE IF DateMatchPositions(2, t) # {} THEN PyStr(LeftmostDateMatch(2, t))
               ELSE PyNone
      /\ res.kind = "str" => Contains(arg.s, res.s)
      /\ arg.s = "19/02/2026" => res = PyStr("19/02/2026")

\* C7 witness: an ISO date stands before a day-month-year date in the text
\* and the day-month-year date is returned.
C7_Witness ==
    /\ Returned("extract_date")
    /\ arg.s = "2018-02-09 19/02/2026"
    /\ res = PyStr("19/02/2026")

(***************************************************************************)
(* Claims about guess_merchant.                                            *)
(***************************************************************************)
HasLineBreak(t) == \E i \in 1..Len(t) : Ch(t, i) \in LineBreakChars

\* C8: for a text with line breaks, guess_merchant returns the first of the
\* first 12 non-empty (trimmed) lines, in original case, that contains no
\* blacklist word in its upper-cased form and has at least 3 letters, cut to
\* 60 characters, and absence when there is none among those 12.
C8_MerchantFirstSurvivingLine ==
    (Returned("guess_merchant") /\ HasLineBreak(arg.s)) =>
      LET lines == NonEmptyLines(arg.s)
          good == {i \in 1..Len(lines) :
                     /\ i <= 12
                     /\ \A bad \in MERCHANT_BAD : ~Contains(Upper(lines[i]), bad)
                     /\ AlphaCount(lines[i]) >= 3}
      IN /\ res = IF good = {} THEN PyNone
                  ELSE PyStr(SubSeq(lines[SetMin(good)], 1,
                                    IF Len(lines[SetMin(good)]) > 60
                                       THEN 60 ELSE Len(lines[SetMin(good)])))
         /\ arg.s = MerchantExample => res = PyStr("ACME STORE SDN BHD")

\* C8 witness: twelve lines without letters precede the only acceptable
\* line, so it is the thirteenth and absence is returned.
C8_Witness ==
    /\ Returned("guess_merchant")
    /\ arg.s = JoinWith(Repeat("12", 12) \o <<"ACME STORE SDN BHD">>, "\n")
    /\ res = PyNone

\* C9 (as claimed): for a text without any line break, guess_merchant returns
\* the first 60 characters of the trimmed text when it has at least one
\* letter, and absence otherwise.
C9_SingleLineFallback ==
    (Returned("guess_merchant") /\ ~HasLineBreak(arg.s)) =>
      res = IF AlphaCount(Strip(arg.s)) >= 1
               THEN PyStr(SubSeq(Strip(arg.s), 1,
                                 IF Len(Strip(arg.s)) > 60 THEN 60 ELSE Len(Strip(arg.s))))
               ELSE PyNone

(***************************************************************************)
(* Totality on degenerate inputs.                                          *)
(***************************************************************************)
\* C10: on empty, whitespace-only and non-string arguments extract_date and
\* guess_merchant return absence and extract_totals returns the empty list;
\* none of them raises.
C10_TotalOnDegenerateInput ==
    xpc = "ret" =>
      /\ res # PyRaise
      /\ fn = "extract_totals" => res = PyList(<<>>)
      /\ fn \in {"extract_date", "guess_merchant"} => res = PyNone

\* C10 witness: extract_totals was called with a number and returned [].
C10_Witness ==
    /\ Returned("extract_totals")
    /\ arg = PyInt(5)
    /\ res = PyList(<<>>)

(***************************************************************************)
(* Claims about the text normalizer.                                       *)
(***************************************************************************)
\* C11 (as claimed): clean_ocr_text is idempotent: applied to its own output
\* it returns that output unchanged.
C11_CleanIdempotent ==
    Returned("clean_ocr_text again") => res = arg

\* The non-time money values of the lines of a text that contain no hint.
UnhintedValues(raw) ==
    LET lines == TotalsLines(raw)
        plain == {l \in 1..Len(lines) :
                    \A h \in 1..Len(TOTAL_LINE_HINTS) :
                        ~Contains(Upper(lines[l]), TOTAL_LINE_HINTS[h])}
    IN UNION {Range(LineValues(lines[l])) : l \in plain}

\* C14: when a line containing a hint yields a non-time-shaped money value,
\* extract_totals returns the deduplicated values of the hinted lines and
\* nothing else: no value that occurs only on lines without a hint is
\* returned, the fallback scan of the whole text is not entered.
C14_FallbackOnlyWhenNoHintedValue ==
    (Returned("extract_totals") /\ HintOccurrences(arg.s) # {}) =>
      LET hinted == {a.v : a \in HintOccurrences(arg.s)}
          out == res.items
      IN /\ res.kind = "list"
         /\ Len(out) = Cardinality(hinted)
         /\ \A i \in 1..Len(out) : out[i] \in hinted
         /\ Range(out) \cap (UnhintedValues(arg.s) \ hinted) = {}

\* C14 witness: a hinted line follows a line of item prices; only the value
\* of the hinted line is returned.
C14_Witness ==
    /\ Returned("extract_totals")
    /\ arg.s = "ITEM 9.99 45.00\nROUNDED TOTAL 45.50"
    /\ UnhintedValues(arg.s) = {"9.99", "45.00"}
    /\ res = PyList(<<"45.50">>)

\* One hint is contained in another, longer one.
HintInside(i, j) ==
    /\ i # j
    /\ Len(TOTAL_LINE_HINTS[i]) < Len(TOTAL_LINE_HINTS[j])
    /\ Contains(TOTAL_LINE_HINTS[j], TOTAL_LINE_HINTS[i])

\* The occurrences of values under the most specific hints of their lines:
\* those hints of the line that are not inside another hint of the line.
SpecificOccurrences(raw) ==
    LET occ == HintOccurrences(raw) IN
    {a \in occ : ~\E b \in occ : b.l = a.l /\ HintInside(a.h, b.h)}

\* C15 (as claimed): a hint that contains another hint precedes it in the
\* hint list, and the values returned by extract_totals are ordered by the
\* priority of the most specific hint of the line on which each was found
\* (then by line, then by position in the line).
C15_MostSpecificHintFirst ==
    (Returned("extract_totals") /\ HintOccurrences(arg.s) # {}) =>
      LET occ == SpecificOccurrences(arg.s)
          out == res.items
          key == [i \in 1..Len(out) |-> FirstKey(occ, out[i])]
      IN /\ \A i, j \in 1..Len(out) : i < j => KeyLess(key[i], key[j])
         /\ \A i, j \in 1..Len(TOTAL_LINE_HINTS) : HintInside(i, j) => j < i

(***************************************************************************)
(* Claims about the lexicon corrector.                                     *)
(***************************************************************************)
\* C12 (as claimed): under any interleaving of concurrent first correction
\* requests the dictionary is loaded at most once, and no request obtains a
\* dictionary object that is constructed but not yet loaded.
C12_LexiconLoadedAtMostOnce ==
    /\ loads <= 1
    /\ \A t \in Threads : got[t] # "empty"
    /\ singleton # "empty"

\* The text with every [A-Za-z]{3,} token replaced by what repl gives for it
\* and everything else kept, scanning left to right from a position.
RECURSIVE TokensCorrectedFrom(_, _)
TokensCorrectedFrom(s, from) ==
    LET at == {i \in from..Len(s) : WordMatchLen(s, i) > 0} IN
    IF at = {} THEN SubSeq(s, from, Len(s))
    ELSE LET i == SetMin(at)
             n == WordMatchLen(s, i)
         IN SubSeq(s, from, i - 1) \o repl(SubSeq(s, i, i + n - 1)).s
            \o TokensCorrectedFrom(s, i + n)

\* C13 (as claimed): correct_with_lexicon returns the input text in which
\* each alphabetic token of length >= 3 is left unchanged (digit, all
\* upper-case, shorter than 4, no dictionary match) or replaced by the best
\* match with the token's case pattern, and all other text is unchanged.
C13_TokensCorrected ==
    Returned("correct_with_lexicon") =>
        res = PyStr(TokensCorrectedFrom(arg.s, 1))

(***************************************************************************)
(* Claims about the two forks of the selector.                             *)
(***************************************************************************)
BothPicked == \A f \in Forks : picked[f] # NoPick

\* C17: for the same recognition results of every mode and the same margin,
\* app.py (newline join, score computed inside run_ocr_on) and
\* run_sroie_eval.py (space join, score attached by choose_best_auto) compute
\* the same blended score for every mode and return the same mode.
C17_ForksEquivalent ==
    BothPicked =>
        /\ picked["app"].scores = picked["eval"].scores
        /\ picked["app"].best.mode = picked["eval"].best.mode
        /\ picked["app"].best.score = picked["eval"].best.score

\* C17 witness: both forks have run on an image whose baseline has two text
\* parts, so that the texts they built differ (newline against space), and
\* both returned the same candidate other than the baseline.
C17_Witness ==
    /\ BothPicked
    /\ results["clahe"] = <<[text |-> "ab", conf |-> 9], [text |-> " c.", conf |-> 5]>>
    /\ picked["app"].best.mode = "clahe"
    /\ picked["eval"].best.mode = "clahe"
    /\ picked["app"].best.text = "ab\n c."
    /\ picked["eval"].best.text = "ab  c."

Init == SelInit
Next == SelNext
Spec == Init /\ [][Next]_vars
====
